---- MODULE Spec2Model ----
(***************************************************************************)
(* Model of tagcon/args.py: the template-tag argument declarations (Arg    *)
(* and its typed subclasses) and their cleaning protocol (base_clean /     *)
(* clean), with the Python 2 semantics of isinstance, issubclass and int.  *)
(***************************************************************************)
EXTENDS Integers, Sequences, FiniteSets, TLC

VARIABLES self, ctor, call, frames

vars == <<self, ctor, call, frames>>

(***************************************************************************)
(* Bounds of the model.                                                    *)
(***************************************************************************)
\* longest list / tuple handed to base_clean
MaxItems == 2
\* number of concurrent render operations sharing one argument
NumRenders == 2

(***************************************************************************)
(* Python values.  Every value carries its class; n is the payload of a    *)
(* number, date or time (floats are kept in tenths), s the characters of a *)
(* text, items the elements of a list or tuple.                            *)
(***************************************************************************)
Val(c, n, s, items) == [cls |-> c, n |-> n, s |-> s, items |-> items]

None == Val("NoneType", 0, <<>>, <<>>)
IntV(n) == Val("int", n, <<>>, <<>>)
FloatV(tenths) == Val("float", tenths, <<>>, <<>>)
StrV(chars) == Val("str", 0, chars, <<>>)
DateV(n) == Val("date", n, <<>>, <<>>)
TimeV(n) == Val("time", n, <<>>, <<>>)
DateTimeV(n) == Val("datetime", n, <<>>, <<>>)
ObjV(c, pk) == Val(c, pk, <<>>, <<>>)
ListV(items) == Val("list", 0, <<>>, items)
TupleV(items) == Val("tuple", 0, <<>>, items)

\* the class each class derives from (datetime.datetime derives from
\* datetime.date; Link and Comment are models, Plain is not)
Base(c) ==
    CASE c = "datetime" -> "date"
      [] c = "str" -> "basestring"
      [] c = "Link" -> "Model"
      [] c = "SubLink" -> "Link"
      [] c = "Comment" -> "Model"
      [] OTHER -> "object"

RECURSIVE issubclass(_, _)
issubclass(c, d) ==
    IF c = d THEN TRUE
    ELSE IF c = "object" THEN FALSE
    ELSE issubclass(Base(c), d)

isinstance(v, c) == issubclass(v.cls, c)

(***************************************************************************)
(* int(value): text is stripped of surrounding blanks, may carry one sign  *)
(* and must then be a non-empty run of decimal digits; an int is returned  *)
(* as it is, a float is truncated towards zero; anything else is a         *)
(* TypeError.                                                              *)
(***************************************************************************)
Digits == <<"0", "1", "2", "3", "4", "5", "6", "7", "8", "9">>

IsDigit(ch) == \E i \in 1..Len(Digits) : Digits[i] = ch

DigitVal(ch) == (CHOOSE i \in 1..Len(Digits) : Digits[i] = ch) - 1

RECURSIVE LStrip(_)
LStrip(cs) ==
    IF cs # <<>> /\ Head(cs) = " " THEN LStrip(Tail(cs)) ELSE cs

RECURSIVE RStrip(_)
RStrip(cs) ==
    IF cs # <<>> /\ cs[Len(cs)] = " " THEN RStrip(SubSeq(cs, 1, Len(cs) - 1))
    ELSE cs

Strip(cs) == RStrip(LStrip(cs))

RECURSIVE DigitsValue(_)
DigitsValue(cs) ==
    IF cs = <<>> THEN 0
    ELSE 10 * DigitsValue(SubSeq(cs, 1, Len(cs) - 1)) + DigitVal(cs[Len(cs)])

AllDigits(cs) == cs # <<>> /\ \A i \in 1..Len(cs) : IsDigit(cs[i])

\* int() of a text: [ok, n]
ParseInt(cs) ==
    LET body == Strip(cs)
        signed == body # <<>> /\ Head(body) \in {"+", "-"}
        digits == IF signed THEN Tail(body) ELSE body
    IN  IF AllDigits(digits)
        THEN [ok |-> TRUE,
              n |-> IF signed /\ Head(body) = "-"
                    THEN 0 - DigitsValue(digits) ELSE DigitsValue(digits)]
        ELSE [ok |-> FALSE, n |-> 0]

Truncate(tenths) ==
    IF tenths >= 0 THEN tenths \div 10 ELSE 0 - ((0 - tenths) \div 10)

\* int(value): [exc, value] with exc one of "", "TypeError", "ValueError"
int(v) ==
    IF isinstance(v, "int") THEN [exc |-> "", value |-> v]
    ELSE IF isinstance(v, "float")
    THEN [exc |-> "", value |-> IntV(Truncate(v.n))]
    ELSE IF isinstance(v, "basestring")
    THEN IF ParseInt(v.s).ok
         THEN [exc |-> "", value |-> IntV(ParseInt(v.s).n)]
         ELSE [exc |-> "ValueError", value |-> v]
    ELSE [exc |-> "TypeError", value |-> v]

(***************************************************************************)
(* Error messages.  A message is the sequence of the pieces the format     *)
(* string is made of: literal text, a %s of a value, a %r of a value.      *)
(***************************************************************************)
Lit(text) == [k |-> "lit", text |-> text, v |-> None]
FmtS(v) == [k |-> "%s", text |-> "", v |-> v]
FmtR(v) == [k |-> "%r", text |-> "", v |-> v]

Contains(msg, piece) == \E i \in 1..Len(msg) : msg[i] = piece

(***************************************************************************)
(* Argument objects.                                                       *)
(***************************************************************************)
Kinds == {"Arg", "IntegerArg", "StringArg", "DateTimeArg", "DateArg",
          "TimeArg", "ModelInstanceArg"}

\* no object: the declaration has not been evaluated, or its constructor
\* raised
NoArg == [kind |-> "", name |-> None, required |-> FALSE, default |-> None,
          null |-> FALSE, resolve |-> FALSE, multi |-> FALSE,
          keyword |-> None, flag |-> FALSE, model_class |-> ""]

\* Arg.__init__: o holds the keyword arguments of the declaration
ArgInit(kind, o) ==
    [kind |-> kind, name |-> o.name, required |-> o.required,
     default |-> o.default, null |-> o.null, resolve |-> o.resolve,
     multi |-> o.multi, keyword |-> None, flag |-> o.flag,
     model_class |-> ""]

\* the model keyword argument of a ModelInstanceArg declaration: absent, a
\* value that is not a class, or a class
NoModel == [given |-> FALSE, isclass |-> FALSE, cls |-> ""]
NotAClass == [given |-> TRUE, isclass |-> FALSE, cls |-> ""]
ClassRef(c) == [given |-> TRUE, isclass |-> TRUE, cls |-> c]

\* ModelInstanceArg.__init__ without the check that model is a Model subclass
ModelInstanceArgInit_unchecked(o, model) ==
    IF ~model.given
    THEN [exc |-> "TypeError",
          msg |-> <<Lit("A 'model' keyword argument is required")>>,
          obj |-> NoArg]
    ELSE [exc |-> "", msg |-> <<>>,
          obj |-> [ArgInit("ModelInstanceArg", o)
                      EXCEPT !.model_class = model.cls]]

\* ModelInstanceArg.__init__: [exc, msg, obj]; issubclass itself raises
\* TypeError when its first argument is not a class
ModelInstanceArgInit(o, model) ==
    IF ~model.given
    THEN [exc |-> "TypeError",
          msg |-> <<Lit("A 'model' keyword argument is required")>>,
          obj |-> NoArg]
    ELSE IF ~model.isclass
    THEN [exc |-> "TypeError",
          msg |-> <<Lit("issubclass() arg 1 must be a class")>>,
          obj |-> NoArg]
    ELSE IF ~issubclass(model.cls, "Model")
    THEN [exc |-> "TypeError",
          msg |-> <<Lit("'model' must be a Model subclass")>>,
          obj |-> NoArg]
    ELSE [exc |-> "", msg |-> <<>>,
          obj |-> [ArgInit("ModelInstanceArg", o)
                      EXCEPT !.model_class = model.cls]]

(***************************************************************************)
(* clean of each class: [exc, value, msg].                                 *)
(***************************************************************************)
Ok(value) == [exc |-> "", value |-> value, msg |-> <<>>]
Invalid(value, msg) ==
    [exc |-> "TemplateTagValidationError", value |-> value, msg |-> msg]

Arg_clean(s, value) == Ok(value)

\* IntegerArg.clean whose message leaves out the value it got
IntegerArg_clean_no_value(s, value) ==
    IF int(value).exc \in {"TypeError", "ValueError"}
    THEN Invalid(value, <<Lit("Value for '"), FmtS(s.name),
                          Lit("' must be an integer")>>)
    ELSE Ok(int(value).value)

\* IntegerArg.clean that catches ValueError only
IntegerArg_clean_value_error_only(s, value) ==
    IF int(value).exc = "ValueError"
    THEN Invalid(value, <<Lit("Value for '"), FmtS(s.name),
                          Lit("' must be an integer (got "), FmtR(value),
                          Lit(")")>>)
    ELSE [exc |-> int(value).exc, value |-> int(value).value, msg |-> <<>>]

\* IntegerArg.clean that parses text and takes nothing else
IntegerArg_clean_text_only(s, value) ==
    IF ~isinstance(value, "basestring")
          \/ int(value).exc \in {"TypeError", "ValueError"}
    THEN Invalid(value, <<Lit("Value for '"), FmtS(s.name),
                          Lit("' must be an integer (got "), FmtR(value),
                          Lit(")")>>)
    ELSE Ok(int(value).value)

IntegerArg_clean(s, value) ==
    IF int(value).exc \in {"TypeError", "ValueError"}
    THEN Invalid(value, <<Lit("Value for '"), FmtS(s.name),
                          Lit("' must be an integer (got "), FmtR(value),
                          Lit(")")>>)
    ELSE Ok(int(value).value)

StringArg_clean(s, value) ==
    IF ~isinstance(value, "basestring")
    THEN Invalid(value, <<Lit("Value for '"), FmtS(s.name),
                          Lit("' must be a string")>>)
    ELSE Ok(value)

DateTimeArg_clean(s, value) ==
    IF ~isinstance(value, "datetime")
    THEN Invalid(value, <<Lit("Value for '"), FmtS(s.name),
                          Lit("' must be a datetime instance")>>)
    ELSE Ok(value)

\* DateArg.clean with the check of DateTimeArg.clean
DateArg_clean_datetime(s, value) ==
    IF ~isinstance(value, "datetime")
    THEN Invalid(value, <<Lit("Value for '"), FmtS(s.name),
                          Lit("' must be a date instance")>>)
    ELSE Ok(value)

DateArg_clean(s, value) ==
    IF ~isinstance(value, "date")
    THEN Invalid(value, <<Lit("Value for '"), FmtS(s.name),
                          Lit("' must be a date instance")>>)
    ELSE Ok(value)

TimeArg_clean(s, value) ==
    IF ~isinstance(value, "time")
    THEN Invalid(value, <<Lit("Value for '"), FmtS(s.name),
                          Lit("' must be a time instance")>>)
    ELSE Ok(value)

\* ModelInstanceArg.clean that takes the instances of any model
ModelInstanceArg_clean_any_model(s, value) ==
    IF ~isinstance(value, "Model")
    THEN Invalid(value, <<Lit("Value for '"), FmtS(s.name),
                          Lit("' must be an instance of "),
                          Lit(s.model_class)>>)
    ELSE Ok(value)

ModelInstanceArg_clean(s, value) ==
    IF ~isinstance(value, s.model_class)
    THEN Invalid(value, <<Lit("Value for '"), FmtS(s.name),
                          Lit("' must be an instance of "),
                          Lit(s.model_class)>>)
    ELSE Ok(value)

\* self.clean(value): the method of the object's class
clean(s, value) ==
    CASE s.kind = "IntegerArg" -> IntegerArg_clean(s, value)
      [] s.kind = "StringArg" -> StringArg_clean(s, value)
      [] s.kind = "DateTimeArg" -> DateTimeArg_clean(s, value)
      [] s.kind = "DateArg" -> DateArg_clean(s, value)
      [] s.kind = "TimeArg" -> TimeArg_clean(s, value)
      [] s.kind = "ModelInstanceArg" -> ModelInstanceArg_clean(s, value)
      [] OTHER -> Arg_clean(s, value)

(***************************************************************************)
(* base_clean, statement by statement.  A frame is one invocation: arg is  *)
(* the value it was called with, value its local variable, cleaned records *)
(* whether it called self.clean.  Each statement yields the object and the *)
(* frame it leaves behind.                                                 *)
(***************************************************************************)
IdleFrame == [pc |-> "idle", arg |-> None, value |-> None, exc |-> "",
              msg |-> <<>>, cleaned |-> FALSE]

EnterFrame(v) == [IdleFrame EXCEPT !.pc = "gate", !.arg = v, !.value = v]

\* the gate with isinstance(value, list) only
base_clean_gate_list_only(s, fr) ==
    IF ~s.multi /\ isinstance(fr.value, "list")
    THEN [self |-> s,
          fr |-> [fr EXCEPT !.pc = "done",
                            !.exc = "TemplateTagValidationError",
                            !.msg = <<Lit("Value for '"), FmtS(s.name),
                                      Lit("' must be a single item.")>>]]
    ELSE [self |-> s, fr |-> [fr EXCEPT !.pc = "delegate"]]

\* if not self.multi and isinstance(value, (list, tuple)): raise ...
base_clean_gate(s, fr) ==
    IF ~s.multi /\ (isinstance(fr.value, "list") \/ isinstance(fr.value, "tuple"))
    THEN [self |-> s,
          fr |-> [fr EXCEPT !.pc = "done",
                            !.exc = "TemplateTagValidationError",
                            !.msg = <<Lit("Value for '"), FmtS(s.name),
                                      Lit("' must be a single item.")>>]]
    ELSE [self |-> s, fr |-> [fr EXCEPT !.pc = "delegate"]]

\* the delegation without the null bypass
base_clean_delegate_always(s, fr) ==
    LET r == clean(s, fr.value)
    IN  [self |-> s,
         fr |-> [fr EXCEPT !.pc = "done", !.cleaned = TRUE,
                           !.exc = r.exc, !.msg = r.msg, !.value = r.value]]

\* the delegation keeping the cleaned value on the object
base_clean_delegate_caching(s, fr) ==
    IF fr.value # None \/ ~s.null
    THEN LET r == clean(s, fr.value)
         IN  [self |-> IF r.exc = "" THEN [s EXCEPT !.default = r.value]
                       ELSE s,
              fr |-> [fr EXCEPT !.pc = "done", !.cleaned = TRUE,
                                !.exc = r.exc, !.msg = r.msg,
                                !.value = r.value]]
    ELSE [self |-> s, fr |-> [fr EXCEPT !.pc = "done"]]

\* if value is not None or not self.null: value = self.clean(value)
\* return value
base_clean_delegate(s, fr) ==
    IF fr.value # None \/ ~s.null
    THEN LET r == clean(s, fr.value)
         IN  [self |-> s,
              fr |-> [fr EXCEPT !.pc = "done", !.cleaned = TRUE,
                                !.exc = r.exc, !.msg = r.msg,
                                !.value = r.value]]
    ELSE [self |-> s, fr |-> [fr EXCEPT !.pc = "done"]]

\* one whole invocation of self.base_clean(v)
base_clean(s, v) ==
    LET g == base_clean_gate(s, EnterFrame(v))
    IN  IF g.fr.pc = "done" THEN g ELSE base_clean_delegate(g.self, g.fr)

(***************************************************************************)
(* Inputs: the declarations evaluated and the values handed to the         *)
(* argument objects.                                                       *)
(***************************************************************************)
Names == {None, StrV(<<"u", "r", "l">>)}

Defaults == {None, IntV(5)}

Options == [name : Names, required : BOOLEAN, default : Defaults,
            null : BOOLEAN, resolve : BOOLEAN, multi : BOOLEAN,
            flag : BOOLEAN]

Models == {NoModel, NotAClass, ClassRef("Link"), ClassRef("Comment"),
           ClassRef("Plain"), ClassRef("date")}

Scalars ==
    {None, IntV(101), IntV(42),
     StrV(<<"2", "3">>), StrV(<<"7", "b">>), StrV(<<" ", "-", "7", " ">>),
     StrV(<<"a", "l", "i", "c", "e">>), StrV(<<>>),
     FloatV(37), FloatV(0 - 15),
     DateV(20100109), TimeV(223347), DateTimeV(20100109),
     ObjV("Link", 1), ObjV("SubLink", 1), ObjV("Comment", 1),
     ObjV("Plain", 1)}

ItemValues ==
    {StrV(<<"2", "3">>), DateV(20100109), TimeV(223347),
     DateTimeV(20100109), ObjV("Link", 1)}

ItemSeqs == UNION {[1..n -> ItemValues] : n \in 0..MaxItems}

Sequences == {ListV(items) : items \in ItemSeqs}
                 \cup {TupleV(items) : items \in ItemSeqs}

Values == Scalars \cup Sequences

\* the declarations and values of the concurrent renders
SharedOptions == {o \in Options : ~o.required /\ o.default = None
                                     /\ o.resolve /\ ~o.flag}

SharedValues ==
    {None, IntV(101), StrV(<<"2", "3">>), StrV(<<"7", "b">>),
     DateTimeV(20100109), ObjV("Link", 1),
     ListV(<<StrV(<<"2", "3">>)>>)}

\* the argument objects those declarations construct
SharedArgs ==
    {ArgInit(kind, o) : kind \in Kinds \ {"ModelInstanceArg"},
                        o \in SharedOptions}
        \cup {r.obj : r \in {x \in {ModelInstanceArgInit(o, model) :
                                        o \in SharedOptions, model \in Models} :
                                x.exc = ""}}

Renders == 1..NumRenders

(***************************************************************************)
(* State: self is the argument object of the declaration, ctor the         *)
(* evaluation of the declaration, call the last invocation made on the     *)
(* object by a single caller, frames the invocations of base_clean in      *)
(* progress in concurrent renders.                                         *)
(***************************************************************************)
NoCtor == [kind |-> "", options |-> NoArg, model |-> NoModel, exc |-> "",
           msg |-> <<>>]

NoCall == [op |-> "none", arg |-> None, value |-> None, exc |-> "",
           msg |-> <<>>, cleaned |-> FALSE]

CallOf(op, fr) ==
    [op |-> op, arg |-> fr.arg, value |-> fr.value, exc |-> fr.exc,
     msg |-> fr.msg, cleaned |-> fr.cleaned]

Init ==
    /\ self = NoArg
    /\ ctor = NoCtor
    /\ call = NoCall
    /\ frames = [t \in Renders |-> IdleFrame]

\* kind(**o) for a class that inherits Arg.__init__
NewArg ==
    /\ self = NoArg
    /\ \E kind \in Kinds \ {"ModelInstanceArg"}, o \in Options :
          /\ self' = ArgInit(kind, o)
          /\ ctor' = [kind |-> kind, options |-> ArgInit("", o),
                      model |-> NoModel, exc |-> "", msg |-> <<>>]
    /\ UNCHANGED <<call, frames>>

\* ModelInstanceArg(model=..., **o)
NewModelInstanceArg ==
    /\ self = NoArg
    /\ \E o \in Options, model \in Models :
          LET r == ModelInstanceArgInit(o, model)
          IN  /\ self' = r.obj
              /\ ctor' = [kind |-> "ModelInstanceArg",
                          options |-> ArgInit("", o), model |-> model,
                          exc |-> r.exc, msg |-> r.msg]
    /\ UNCHANGED <<call, frames>>

\* self.base_clean(v)
CallBaseClean ==
    /\ self # NoArg
    /\ call = NoCall
    /\ \E v \in Values :
          LET r == base_clean(self, v)
          IN  /\ self' = r.self
              /\ call' = CallOf("base_clean", r.fr)
    /\ UNCHANGED <<ctor, frames>>

\* self.base_clean applied to the value the last base_clean returned
CallBaseCleanAgain ==
    /\ self # NoArg
    /\ call.op = "base_clean"
    /\ call.exc = ""
    /\ LET r == base_clean(self, call.value)
       IN  /\ self' = r.self
           /\ call' = CallOf("again", r.fr)
    /\ UNCHANGED <<ctor, frames>>

\* self.clean(v), called directly
CallClean ==
    /\ self # NoArg
    /\ call = NoCall
    /\ \E v \in Values :
          LET r == clean(self, v)
          IN  call' = [op |-> "clean", arg |-> v, value |-> r.value,
                       exc |-> r.exc, msg |-> r.msg, cleaned |-> TRUE]
    /\ UNCHANGED <<self, ctor, frames>>

\* the caller is done with the outcome of its invocation
Return ==
    /\ call # NoCall
    /\ call' = NoCall
    /\ UNCHANGED <<self, ctor, frames>>

Next ==
    \/ NewArg
    \/ NewModelInstanceArg
    \/ CallBaseClean
    \/ CallBaseCleanAgain
    \/ CallClean
    \/ Return

Spec == Init /\ [][Next]_vars

(***************************************************************************)
(* Concurrent renders of one tag: every render calls base_clean on the     *)
(* shared argument object, a statement at a time.                          *)
(***************************************************************************)
Enter(t) ==
    /\ self # NoArg
    /\ frames[t].pc = "idle"
    /\ \E v \in SharedValues : frames' = [frames EXCEPT ![t] = EnterFrame(v)]
    /\ UNCHANGED <<self, ctor, call>>

Gate(t) ==
    /\ frames[t].pc = "gate"
    /\ LET r == base_clean_gate(self, frames[t])
       IN  /\ self' = r.self
           /\ frames' = [frames EXCEPT ![t] = r.fr]
    /\ UNCHANGED <<ctor, call>>

Delegate(t) ==
    /\ frames[t].pc = "delegate"
    /\ LET r == base_clean_delegate(self, frames[t])
       IN  /\ self' = r.self
           /\ frames' = [frames EXCEPT ![t] = r.fr]
    /\ UNCHANGED <<ctor, call>>

\* the render is over
Leave(t) ==
    /\ frames[t].pc = "done"
    /\ frames' = [frames EXCEPT ![t] = IdleFrame]
    /\ UNCHANGED <<self, ctor, call>>

NextShared ==
    \/ \E t \in Renders : Enter(t)
    \/ \E t \in Renders : Gate(t)
    \/ \E t \in Renders : Delegate(t)
    \/ \E t \in Renders : Leave(t)

\* the tag class has been defined: its argument object exists
InitShared ==
    /\ self \in SharedArgs
    /\ ctor = NoCtor
    /\ call = NoCall
    /\ frames = [t \in Renders |-> IdleFrame]

SpecShared == InitShared /\ [][NextShared]_vars

(***************************************************************************)
(* Properties.                                                             *)
(***************************************************************************)
ValidationError == "TemplateTagValidationError"

IsSequenceValue(v) == v.cls \in {"list", "tuple"}

\* C1: with multi false, base_clean of any list or tuple (the empty one
\* included, whatever its elements) raises the validation error, whatever
\* null, required, default, resolve and flag are, and does not call clean.
SingleItemGate ==
    (call.op = "base_clean" /\ ~self.multi /\ IsSequenceValue(call.arg))
        => (call.exc = ValidationError /\ ~call.cleaned)

SingleItemGateWitness ==
    /\ self.kind = "DateArg" /\ ~self.multi /\ self.null /\ self.required
    /\ call.op = "base_clean"
    /\ call.arg = TupleV(<<>>)
    /\ call.exc = ValidationError

\* C2: with null true, base_clean of None returns None, raises nothing and
\* does not call clean, although the clean of every typed class rejects
\* None.
NullBypass ==
    (call.op = "base_clean" /\ self.null /\ call.arg = None)
        => /\ call.exc = ""
           /\ call.value = None
           /\ ~call.cleaned
           /\ self.kind # "Arg" => clean(self, None).exc = ValidationError

NullBypassWitness ==
    /\ self.kind = "IntegerArg" /\ self.null
    /\ call.op = "base_clean" /\ call.arg = None
    /\ call.exc = "" /\ call.value = None

\* the class of the values a date / time argument is declared for
OwnDomain(kind) ==
    CASE kind = "DateArg" -> "date"
      [] kind = "TimeArg" -> "time"
      [] kind = "DateTimeArg" -> "datetime"
      [] OTHER -> ""

IsDateTimeKind(kind) == kind \in {"DateArg", "TimeArg", "DateTimeArg"}

\* C3 as stated: clean of DateArg, TimeArg and DateTimeArg returns a value
\* of the argument's own domain unchanged and raises the validation error
\* for a value of any other domain; DateArg.clean rejects a datetime.
DateTimeCleanOwnDomainOnly ==
    (call.op = "clean" /\ IsDateTimeKind(self.kind))
        => IF call.arg.cls = OwnDomain(self.kind)
           THEN call.exc = "" /\ call.value = call.arg
           ELSE call.exc = ValidationError

\* C3 amended: as above, except that DateArg.clean also returns a datetime
\* unchanged, a datetime being a date.
DateTimeClean ==
    (call.op = "clean" /\ IsDateTimeKind(self.kind))
        => IF \/ call.arg.cls = OwnDomain(self.kind)
              \/ (self.kind = "DateArg" /\ call.arg.cls = "datetime")
           THEN call.exc = "" /\ call.value = call.arg
           ELSE call.exc = ValidationError

DateTimeCleanWitness ==
    /\ self.kind = "DateArg"
    /\ call.op = "clean"
    /\ call.arg = DateTimeV(20100109)
    /\ call.exc = "" /\ call.value = call.arg

\* C4 as stated: the message of every validation error contains the
\* argument's name and the offending value.
MessageHasNameAndValue ==
    (call.op \in {"base_clean", "clean"} /\ call.exc = ValidationError)
        => /\ Contains(call.msg, FmtS(self.name))
           /\ \/ Contains(call.msg, FmtR(call.arg))
              \/ Contains(call.msg, FmtS(call.arg))

\* C4 amended: the message of every validation error contains the
\* argument's name; the message of IntegerArg.clean also contains the
\* offending value, and no other message formats any value but the name.
MessageHasName ==
    (call.op \in {"base_clean", "clean"} /\ call.exc = ValidationError)
        => /\ Contains(call.msg, FmtS(self.name))
           /\ IF self.kind = "IntegerArg" /\ call.cleaned
              THEN Contains(call.msg, FmtR(call.arg))
              ELSE \A i \in 1..Len(call.msg) :
                      call.msg[i].k = "lit" \/ call.msg[i] = FmtS(self.name)

MessageHasNameWitness ==
    /\ self.kind = "IntegerArg" /\ self.name # None
    /\ call.op = "base_clean"
    /\ call.arg = StrV(<<"7", "b">>)
    /\ call.exc = ValidationError
    /\ Contains(call.msg, FmtR(StrV(<<"7", "b">>)))

\* C5: with multi true, base_clean of a list or tuple whose elements the
\* argument's clean accepts one by one returns the sequence of the cleaned
\* elements, in order and of the same length.
MultiCleansEachItem ==
    (/\ call.op = "base_clean" /\ self.multi /\ IsSequenceValue(call.arg)
     /\ \A i \in 1..Len(call.arg.items) :
           clean(self, call.arg.items[i]).exc = "")
        => /\ call.exc = ""
           /\ IsSequenceValue(call.value)
           /\ Len(call.value.items) = Len(call.arg.items)
           /\ \A i \in 1..Len(call.arg.items) :
                 call.value.items[i] = clean(self, call.arg.items[i]).value

\* C6: IntegerArg.clean returns an int as it is (101 -> 101), parses text
\* ("23" -> 23) and raises the validation error for "7b" and for every
\* value that is neither a number nor text, None included; so base_clean of
\* None on an IntegerArg with null and multi false raises it too.
IntegerClean ==
    /\ (call.op = "clean" /\ self.kind = "IntegerArg")
          => /\ call.arg.cls = "int" => (call.exc = "" /\ call.value = call.arg)
             /\ call.arg = IntV(101) => call.value = IntV(101)
             /\ call.arg = StrV(<<"2", "3">>)
                   => (call.exc = "" /\ call.value = IntV(23))
             /\ call.arg = StrV(<<"7", "b">>) => call.exc = ValidationError
             /\ call.arg.cls \notin {"int", "float", "str"}
                   => call.exc = ValidationError
             /\ call.exc \in {"", ValidationError}
    /\ (/\ call.op = "base_clean" /\ self.kind = "IntegerArg"
        /\ ~self.null /\ ~self.multi /\ call.arg = None)
          => call.exc = ValidationError

IntegerCleanWitness ==
    /\ self.kind = "IntegerArg"
    /\ call.op = "clean"
    /\ call.arg = StrV(<<"2", "3">>)
    /\ call.value = IntV(23)

\* C7: constructing a ModelInstanceArg raises TypeError (no validation
\* error), leaves no object that base_clean could be called on, when model
\* is missing, is not a class or is a class that is not a model; with a
\* model class it succeeds, model_class is that class and the other options
\* are stored as Arg.__init__ stores them.
ModelInstanceArgConstruction ==
    ctor.kind = "ModelInstanceArg"
        => IF /\ ctor.model.given /\ ctor.model.isclass
              /\ ctor.model.cls \in {"Model", "Link", "SubLink", "Comment"}
           THEN /\ ctor.exc = ""
                /\ self.kind = "ModelInstanceArg"
                /\ self.model_class = ctor.model.cls
                /\ [self EXCEPT !.kind = "", !.model_class = ""] = ctor.options
           ELSE /\ ctor.exc = "TypeError"
                /\ self = NoArg
                /\ call = NoCall
                /\ ~ENABLED CallBaseClean

ModelInstanceArgConstructionWitness ==
    /\ ctor.kind = "ModelInstanceArg"
    /\ ctor.model = ClassRef("Plain")
    /\ ctor.exc = "TypeError"
    /\ self = NoArg

\* C8: when base_clean(x) succeeds, base_clean of its result succeeds too
\* and returns that result.
BaseCleanIdempotent ==
    call.op = "again" => (call.exc = "" /\ call.value = call.arg)

BaseCleanIdempotentWitness ==
    /\ self.kind = "IntegerArg"
    /\ call.op = "again"
    /\ call.arg = IntV(0 - 7)
    /\ call.value = IntV(0 - 7)

\* the classes whose instances are instances of class c
InstanceClasses(c) ==
    CASE c = "Link" -> {"Link", "SubLink"}
      [] c = "Comment" -> {"Comment"}
      [] OTHER -> {}

\* C9: StringArg.clean returns v unchanged exactly when v is text and
\* raises the validation error otherwise; ModelInstanceArg.clean returns v
\* unchanged exactly when v is an instance of model_class and raises the
\* validation error otherwise.
StringAndModelInstanceClean ==
    /\ (call.op = "clean" /\ self.kind = "StringArg")
          => IF call.arg.cls = "str"
             THEN call.exc = "" /\ call.value = call.arg
             ELSE call.exc = ValidationError
    /\ (call.op = "clean" /\ self.kind = "ModelInstanceArg")
          => IF call.arg.cls \in InstanceClasses(self.model_class)
             THEN call.exc = "" /\ call.value = call.arg
             ELSE call.exc = ValidationError

StringAndModelInstanceCleanWitness ==
    /\ self.kind = "ModelInstanceArg" /\ self.model_class = "Link"
    /\ call.op = "clean"
    /\ call.arg = ObjV("Comment", 1)
    /\ call.exc = ValidationError

\* what an invocation of base_clean gives its caller
Outcome(fr) == [exc |-> fr.exc, msg |-> fr.msg,
                value |-> IF fr.exc = "" THEN fr.value ELSE None]

\* C10: however the base_clean invocations of concurrent renders on one
\* shared argument interleave, none changes a field of the argument, and
\* each ends as it does when run alone on the argument and its own value.
SharedArgUntouched ==
    /\ [](\A t \in Renders :
             frames[t].pc = "done"
                => Outcome(frames[t])
                      = Outcome(base_clean(self, frames[t].arg).fr))
    /\ [][self' = self]_vars

SharedArgUntouchedWitness ==
    /\ self.kind = "IntegerArg"
    /\ frames[1].pc = "done" /\ frames[1].exc = ValidationError
    /\ frames[2].pc = "delegate" /\ frames[2].arg = StrV(<<"2", "3">>)

====
